---- MODULE Spec2Model ----
(***************************************************************************)
(* Face-recognition attendance tracker: backend/app.py (Flask routes),     *)
(* backend/models.py (SQLAlchemy schema on SQLite, ensure_day_rows) and    *)
(* backend/face_utils.py (capture, training, recognition).                 *)
(*                                                                         *)
(* A request handler is split at its database statements and at its calls  *)
(* into the camera engine, so that requests served by different threads    *)
(* interleave exactly where the code lets them.  The committed database    *)
(* is `students` and `attendance`; rows a session has flushed but not yet  *)
(* committed are in that request's `tx`, rows added to the session but not *)
(* yet flushed in its `pend`.  SQLite lets one connection write at a time: *)
(* `wlock` is the connection holding the write lock.                       *)
(*                                                                         *)
(* Strings are sequences of character codes, 0 being the space character.  *)
(* The columns email, klass and section are handled by the code exactly as *)
(* name is (stripped, stored, no constraint); name stands for the four.    *)
(***************************************************************************)
EXTENDS Integers, Sequences, FiniteSets, TLC

\* ------------------------------------------------------------ bounds
MaxStudents == 2
MaxClock == 1
TicksPerDay == 1
NumProcs == 2
MaxFrames == 1
MaxFaces == 1
MaxRequests == 3
MaxSeen == 3
MaxCamFaces == 2
MaxCapFrames == 3
MaxCapSamples == 3

\* ------------------------------------------------- program constants
Threshold == 70
RegisterSamples == 20
EditSamples == 15
InitBestConf == 999

\* Python None for an identity; NULL for a DateTime column
None == 0
NoTimestamp == 0 - 1

Procs == 1..NumProcs
Days == 0..(MaxClock \div TicksPerDay)

\* ------------------------------------------------------------ strings
Space == 0
RawRolls == {<<1>>, <<2>>, <<Space, 1>>}
RawNames == {<<7>>, <<Space, 7>>}
EmptyStr == <<>>

RECURSIVE LStrip(_)
LStrip(s) == IF s # <<>> /\ Head(s) = Space THEN LStrip(Tail(s)) ELSE s

RECURSIVE RStrip(_)
RStrip(s) ==
    IF s # <<>> /\ s[Len(s)] = Space THEN RStrip(SubSeq(s, 1, Len(s) - 1)) ELSE s

\* str.strip()
Strip(s) == RStrip(LStrip(s))

\* Python / SQLite BINARY ordering of two strings
RECURSIVE StrLess(_, _)
StrLess(a, b) ==
    IF b = <<>> THEN FALSE
    ELSE IF a = <<>> THEN TRUE
    ELSE IF Head(a) # Head(b) THEN Head(a) < Head(b)
    ELSE StrLess(Tail(a), Tail(b))

\* ------------------------------------------------------------- clock
\* datetime.now(APP_TZ).date()
DateOf(t) == t \div TicksPerDay

\* strftime('%H:%M:%S'): the time of day, the date dropped
FormatTime(t) == IF t = NoTimestamp THEN EmptyStr ELSE <<t % TicksPerDay>>

\* -------------------------------------------------------------- users
Hash(pw) == <<"pbkdf2", pw>>
\* the comparison left out: any password passes
CheckHashAny(h, pw) == TRUE
CheckHash(h, pw) == h = Hash(pw)
\* the bootstrap's single account, id 1
Users == {[id |-> 1, username |-> "admin", password_hash |-> Hash("admin123")]}
Credentials ==
    {[username |-> "admin", password |-> "admin123"],
     [username |-> "admin", password |-> "guess"],
     [username |-> "root", password |-> "admin123"]}

VARIABLES
    students,    \* table students: id -> [roll_no, name, image_path]
    attendance,  \* table attendance: set of [id, student_id, day, status, timestamp]
    wlock,       \* the request whose connection holds SQLite's write lock, or None
    faces,       \* FACES_DIR: student id -> number of sample files in its folder
    modelFile,   \* MODEL_PATH: [exists, labels]
    recognizer,  \* RECOGNIZER: the labels the in-memory recognizer is trained on
    clock,       \* wall clock, in ticks
    session,     \* the browser session: the logged-in user id, or None
    req,         \* per serving thread: the request in progress and its locals
    cam,         \* a camera loop (recognize_once or capture_samples) stepped face by face
    started      \* requests accepted so far by the threaded server

vars == <<students, attendance, wlock, faces, modelFile, recognizer, clock, session, req, cam,
          started>>

db == <<students, attendance, wlock>>
engine == <<faces, modelFile, recognizer>>

\* ---------------------------------------------------------- database
Max(S) == IF S = {} THEN 0 ELSE CHOOSE x \in S : \A y \in S : y <= x

\* the duplicate check left out
RollExistsNever(studs, roll) == FALSE

\* s.query(Student).filter_by(roll_no=roll_no).one_or_none()
RollExists(studs, roll) == \E i \in DOMAIN studs : studs[i].roll_no = roll

\* the column declared without unique=True
RollUniqueOff(studs, id, roll) == TRUE

\* Student.roll_no unique=True: may the row `id` carry `roll`?
RollUniqueOK(studs, id, roll) ==
    ~ \E i \in DOMAIN studs \ {id} : studs[i].roll_no = roll

\* the table declared without its UniqueConstraint
AttUniqueOff(rows, sid, day) == TRUE

\* UniqueConstraint('student_id', 'day'): may a row for (sid, day) be inserted?
AttUniqueOK(rows, sid, day) ==
    ~ \E r \in rows : r.student_id = sid /\ r.day = day

\* the existence query finding nothing
AttFindNothing(rows, sid, day) == {}

\* s.query(Attendance).filter_by(student_id=sid, day=day).one_or_none()
AttFind(rows, sid, day) == {r \in rows : r.student_id = sid /\ r.day = day}

\* the INTEGER PRIMARY KEY SQLite gives the next row
NextId(ids) == Max(ids) + 1

\* Attendance(student_id=sid, day=day, status='Absent') as inserted
NewAtt(rows, sid, day) ==
    [id |-> NextId({r.id : r \in rows}), student_id |-> sid, day |-> day,
     status |-> "Absent", timestamp |-> NoTimestamp]

\* may request p write now?
CanWrite(p) == wlock \in {None, p}

\* ------------------------------------------------------ request state
NoResult == [total |-> 0, present |-> 0, absent |-> 0, rows |-> <<>>]
NoStudent == [roll_no |-> EmptyStr, name |-> EmptyStr, image_path |-> EmptyStr]
NoCred == [username |-> "", password |-> ""]

IdleReq ==
    [op |-> "none", pc |-> "idle", outcome |-> "", cred |-> NoCred,
     roll_no |-> EmptyStr, name |-> EmptyStr, recapture |-> FALSE,
     sid |-> None, loaded |-> NoStudent, preview |-> EmptyStr,
     todo |-> <<>>, pend |-> <<>>, tx |-> {},
     today |-> 0, now |-> 0, att |-> None, was |-> "",
     result |-> NoResult, caps |-> 0, trains |-> 0]

Free(p) == req[p].pc \in {"idle", "done"}
Fresh(op) == [IdleReq EXCEPT !.op = op]
\* the response is sent and the handler's locals are gone
Finish(r, outcome) ==
    [IdleReq EXCEPT !.op = r.op, !.pc = "done", !.outcome = outcome, !.cred = r.cred,
                    !.today = r.today, !.was = r.was,
                    !.result = r.result, !.caps = r.caps, !.trains = r.trains]
Put(p, r) == req' = [req EXCEPT ![p] = r]

\* @login_required
Authenticated == session # None /\ \E u \in Users : u.id = session


\* ------------------------------------------------- recognition engine
\* what the camera and the cascade deliver to one capture_samples call: per
\* frame read, the number of faces detected and whether 'q' is pressed after
\* it; cap.read() fails once the frames are used up
CapFrames == [faces : 0..MaxFaces, q : BOOLEAN]
CaptureRuns == UNION {[1..n -> CapFrames] : n \in 0..MaxFrames}

\* capture_samples: the while loop, from `count` crops saved
RECURSIVE CaptureLoop(_, _, _)
CaptureLoop(count, samples, frames) ==
    IF ~(count < samples) THEN count
    ELSE IF frames = <<>> THEN count
    ELSE LET saved == count + Head(frames).faces
         IN  IF Head(frames).q THEN saved
             ELSE CaptureLoop(saved, samples, Tail(frames))

\* capture_samples: the number of crops one call saves
CaptureCount(samples, frames) == CaptureLoop(0, samples, frames)

\* capture_samples: preview_path or "" (files are named <sid>_<count:03d>.png)
PreviewPath(sid, n) == IF n = 0 THEN EmptyStr ELSE <<sid, n - 1>>

\* the folder FACES_DIR/<sid> after a call saved crops 0..n-1 into it
StoreSamples(f, sid, n) ==
    IF sid \in DOMAIN f
    THEN [f EXCEPT ![sid] = IF n > @ THEN n ELSE @]
    ELSE f @@ (sid :> n)

\* _load_dataset: the labels of the images found
DatasetLabels(f) == {i \in DOMAIN f : f[i] > 0}

NoModelFile == [exists |-> FALSE, labels |-> {}]

\* the emptiness check left out: trains on nothing and saves the result
TrainOrUpdateUnguarded(f, rec, file) ==
    [ok |-> TRUE, recognizer |-> DatasetLabels(f),
     modelFile |-> [exists |-> TRUE, labels |-> DatasetLabels(f)]]

\* train_or_update_model, on (faces, recognizer, modelFile)
TrainOrUpdate(f, rec, file) ==
    IF DatasetLabels(f) = {}
    THEN [ok |-> FALSE, recognizer |-> rec, modelFile |-> file]
    ELSE [ok |-> TRUE, recognizer |-> DatasetLabels(f),
          modelFile |-> [exists |-> TRUE, labels |-> DatasetLabels(f)]]

\* ensure_model_loaded
EnsureModelLoaded(rec, file) ==
    IF ~file.exists THEN [ok |-> FALSE, recognizer |-> rec]
    ELSE [ok |-> TRUE, recognizer |-> file.labels]

\* recognize_once, lines 93-96: load the model or train one
LoadOrTrain(f, rec, file) ==
    LET ld == EnsureModelLoaded(rec, file)
    IN  IF ld.ok THEN [ok |-> TRUE, recognizer |-> ld.recognizer, modelFile |-> file]
        ELSE TrainOrUpdate(f, rec, file)

\* recognize_once: predicted and best_conf before the first frame
InitRec == [predicted |-> None, best_conf |-> InitBestConf]

\* the threshold compared with <= instead of <
RecDetectInclusive(st, det, threshold) ==
    IF det.conf < st.best_conf /\ det.conf <= threshold
    THEN [predicted |-> det.label, best_conf |-> det.conf]
    ELSE st

\* the comparison with best_conf left out: the latest accepted detection wins
RecDetectLatest(st, det, threshold) ==
    IF det.conf < threshold
    THEN [predicted |-> det.label, best_conf |-> det.conf]
    ELSE st

\* recognize_once: one detection (label, confidence) against the best so far
RecDetect(st, det, threshold) ==
    IF det.conf < st.best_conf /\ det.conf < threshold
    THEN [predicted |-> det.label, best_conf |-> det.conf]
    ELSE st

\* recognize_once: the for loop over the faces of one frame
RECURSIVE RecFrame(_, _, _)
RecFrame(st, dets, threshold) ==
    IF dets = <<>> THEN st
    ELSE RecFrame(RecDetect(st, Head(dets), threshold), Tail(dets), threshold)

\* recognize_once: the while loop; cap.read() fails once the frames are used up
RECURSIVE RecLoop(_, _, _)
RecLoop(st, frames, threshold) ==
    IF frames = <<>> THEN st
    ELSE LET after == RecFrame(st, Head(frames).dets, threshold)
         IN  IF Head(frames).q THEN after
             ELSE RecLoop(after, Tail(frames), threshold)

\* what the camera and RECOGNIZER.predict deliver to a marking request
MarkConfs == {65, 75}
Detections(labels, confs) == [label : labels, conf : confs]
DetLists(labels, confs) ==
    UNION {[1..n -> Detections(labels, confs)] : n \in 0..MaxFaces}
RecFrames(labels, confs) == [dets : DetLists(labels, confs), q : BOOLEAN]
RecRuns(labels, confs) ==
    UNION {[1..n -> RecFrames(labels, confs)] : n \in 0..MaxFrames}

\* ---------------------------------------------------------- session
\* login: GET renders the form; POST checks the password against the stored hash
Login(p) ==
    /\ Free(p)
    /\ \/ /\ Put(p, Finish(Fresh("login"), "form"))
          /\ session' = session
       \/ \E c \in Credentials :
            LET u == {x \in Users : x.username = c.username}
                r == [Fresh("login") EXCEPT !.cred = c]
            IN  IF u # {} /\ CheckHash((CHOOSE x \in u : TRUE).password_hash, c.password)
                THEN /\ session' = (CHOOSE x \in u : TRUE).id
                     /\ Put(p, Finish(r, "logged_in"))
                ELSE /\ session' = session
                     /\ Put(p, Finish(r, "invalid"))
    /\ UNCHANGED <<db, engine, clock, cam>>

\* logout
Logout(p) ==
    /\ Free(p)
    /\ IF ~Authenticated
       THEN /\ Put(p, Finish(Fresh("logout"), "login_redirect"))
            /\ session' = session
       ELSE /\ Put(p, Finish(Fresh("logout"), "logged_out"))
            /\ session' = None
    /\ UNCHANGED <<db, engine, clock, cam>>

Tick ==
    /\ clock < MaxClock
    /\ clock' = clock + 1
    /\ UNCHANGED <<db, engine, session, req, cam>>

\* --------------------------------------------------------- /register
\* registrations that passed the roll check and have not inserted yet
Registering == {q \in Procs : req[q].pc = "reg_insert"}

\* register, lines 79-89
RegisterPost(p) ==
    /\ Free(p)
    /\ \E raw \in RawRolls, nm \in RawNames :
         LET r == [Fresh("register") EXCEPT !.roll_no = Strip(raw), !.name = Strip(nm)]
         IN  IF ~Authenticated
             THEN Put(p, Finish(Fresh("register"), "login_redirect"))
             ELSE IF RollExists(students, r.roll_no)
             THEN Put(p, Finish(r, "rejected"))
             ELSE /\ Len(students) + Cardinality(Registering) < MaxStudents
                  /\ Put(p, [r EXCEPT !.pc = "reg_insert"])
    /\ UNCHANGED <<db, engine, clock, session, cam>>

\* the commit put off to the end of the handler: the capture runs for an
\* identity that is in no committed row
RegisterInsertDeferred(p) ==
    LET r == req[p]
    IN  /\ r.pc = "reg_insert"
        /\ CanWrite(p)
        /\ Put(p, [r EXCEPT !.pc = "reg_capture", !.sid = Len(students) + 1])
        /\ UNCHANGED <<students, attendance, wlock, engine, clock, session, cam>>

\* register, lines 90-92: INSERT and commit
RegisterInsert(p) ==
    LET r == req[p]
        id == Len(students) + 1
    IN  /\ r.pc = "reg_insert"
        /\ CanWrite(p)
        /\ IF RollUniqueOK(students, id, r.roll_no)
           THEN /\ students' = Append(students,
                        [roll_no |-> r.roll_no, name |-> r.name, image_path |-> EmptyStr])
                /\ Put(p, [r EXCEPT !.pc = "reg_capture", !.sid = id])
           ELSE /\ students' = students
                /\ Put(p, Finish(r, "error500"))
        /\ UNCHANGED <<attendance, wlock, engine, clock, session, cam>>

\* register, lines 94-95
RegisterCapture(p) ==
    LET r == req[p]
    IN  /\ r.pc = "reg_capture"
        /\ \E run \in CaptureRuns :
             LET n == CaptureCount(RegisterSamples, run)
             IN  /\ faces' = StoreSamples(faces, r.sid, n)
                 /\ Put(p, [r EXCEPT !.preview = PreviewPath(r.sid, n),
                                     !.caps = @ + 1,
                                     !.pc = IF n = 0 THEN "reg_train" ELSE "reg_setimg"])
        /\ UNCHANGED <<db, modelFile, recognizer, clock, session, cam>>

\* register, lines 96-97: UPDATE and commit
RegisterSetImage(p) ==
    LET r == req[p]
    IN  /\ r.pc = "reg_setimg"
        /\ CanWrite(p)
        /\ students' = [students EXCEPT ![r.sid].image_path = r.preview]
        /\ Put(p, [r EXCEPT !.pc = "reg_train"])
        /\ UNCHANGED <<attendance, wlock, engine, clock, session, cam>>

\* register, lines 98-100
RegisterTrain(p) ==
    LET r == req[p]
        t == TrainOrUpdate(faces, recognizer, modelFile)
    IN  /\ r.pc = "reg_train"
        /\ recognizer' = t.recognizer
        /\ modelFile' = t.modelFile
        /\ Put(p, Finish([r EXCEPT !.trains = @ + 1],
                         IF t.ok THEN "registered_trained" ELSE "registered_untrained"))
        /\ UNCHANGED <<db, faces, clock, session, cam>>

\* ------------------------------------------------ read-only pages
\* query(Student).order_by(Student.roll_no).all()
RECURSIVE Roster(_, _)
Roster(studs, ids) ==
    IF ids = {} THEN <<>>
    ELSE LET first == CHOOSE i \in ids : \A o \in ids :
                          ~StrLess(studs[o].roll_no, studs[i].roll_no)
         IN  <<[roll_no |-> studs[first].roll_no, name |-> studs[first].name]>>
                 \o Roster(studs, ids \ {first})

\* students, download_students: the roster in roll-number order
RosterGet(p) ==
    /\ Free(p)
    /\ \E op \in {"students", "download_students"} :
         IF ~Authenticated
         THEN Put(p, Finish(Fresh(op), "login_redirect"))
         ELSE Put(p, Finish([Fresh(op) EXCEPT !.result =
                 [total |-> 0, present |-> 0, absent |-> 0,
                  rows |-> Roster(students, DOMAIN students)]], "ok"))
    /\ UNCHANGED <<db, engine, clock, session, cam>>

\* register (GET), line 101; student_edit (GET), lines 113-117 and 132
FormGet(p) ==
    /\ Free(p)
    /\ \/ IF ~Authenticated
          THEN Put(p, Finish(Fresh("register_form"), "login_redirect"))
          ELSE Put(p, Finish(Fresh("register_form"), "form"))
       \/ \E id \in 1..MaxStudents :
            IF ~Authenticated
            THEN Put(p, Finish(Fresh("edit_form"), "login_redirect"))
            ELSE IF id \notin DOMAIN students
            THEN Put(p, Finish(Fresh("edit_form"), "notfound"))
            ELSE Put(p, Finish(Fresh("edit_form"), "form"))
    /\ UNCHANGED <<db, engine, clock, session, cam>>

\* ------------------------------------------------ /student/<sid>/edit
\* student_edit, lines 113-123 (POST)
EditPost(p) ==
    /\ Free(p)
    /\ \E id \in 1..MaxStudents, raw \in RawRolls, nm \in RawNames, recap \in BOOLEAN :
         LET r == [Fresh("edit") EXCEPT !.sid = id, !.roll_no = Strip(raw),
                                        !.name = Strip(nm), !.recapture = recap]
         IN  IF ~Authenticated
             THEN Put(p, Finish(Fresh("edit"), "login_redirect"))
             ELSE IF id \notin DOMAIN students
             THEN Put(p, Finish(r, "notfound"))
             ELSE Put(p, [r EXCEPT !.loaded = students[id],
                                   !.pc = IF recap THEN "edit_capture" ELSE "edit_commit"])
    /\ UNCHANGED <<db, engine, clock, session, cam>>

\* student_edit, lines 124-127
EditCapture(p) ==
    LET r == req[p]
    IN  /\ r.pc = "edit_capture"
        /\ \E run \in CaptureRuns :
             LET n == CaptureCount(EditSamples, run)
             IN  /\ faces' = StoreSamples(faces, r.sid, n)
                 /\ Put(p, [r EXCEPT !.preview = PreviewPath(r.sid, n),
                                     !.caps = @ + 1, !.pc = "edit_commit"])
        /\ UNCHANGED <<db, modelFile, recognizer, clock, session, cam>>

\* the row the session's UPDATE leaves: the columns whose value differs from
\* the one loaded are written, the others are not part of the statement
EditedRow(cur, loaded, r) ==
    LET img == IF r.preview # EmptyStr THEN r.preview ELSE loaded.image_path
    IN  [roll_no |-> IF r.roll_no # loaded.roll_no THEN r.roll_no ELSE cur.roll_no,
         name |-> IF r.name # loaded.name THEN r.name ELSE cur.name,
         image_path |-> IF img # loaded.image_path THEN img ELSE cur.image_path]

\* does the session have anything to write?
EditDirty(loaded, r) ==
    \/ r.roll_no # loaded.roll_no
    \/ r.name # loaded.name
    \/ (r.preview # EmptyStr /\ r.preview # loaded.image_path)

\* student_edit, line 128: UPDATE and commit
EditCommit(p) ==
    LET r == req[p]
        row == EditedRow(students[r.sid], r.loaded, r)
    IN  /\ r.pc = "edit_commit"
        /\ EditDirty(r.loaded, r) => CanWrite(p)
        /\ IF r.roll_no # r.loaded.roll_no /\ ~RollUniqueOK(students, r.sid, row.roll_no)
           THEN /\ students' = students
                /\ Put(p, Finish(r, "error500"))
           ELSE /\ students' = [students EXCEPT ![r.sid] = row]
                /\ Put(p, [r EXCEPT !.pc = "edit_train"])
        /\ UNCHANGED <<attendance, wlock, engine, clock, session, cam>>

\* student_edit, lines 129-131
EditTrain(p) ==
    LET r == req[p]
        t == TrainOrUpdate(faces, recognizer, modelFile)
    IN  /\ r.pc = "edit_train"
        /\ recognizer' = t.recognizer
        /\ modelFile' = t.modelFile
        /\ Put(p, Finish([r EXCEPT !.trains = @ + 1], "updated"))
        /\ UNCHANGED <<db, faces, clock, session, cam>>


\* ---------------------------------------------------- ensure_day_rows
\* the session's flush: INSERT the pending rows, each against the rows the
\* connection sees; ok is FALSE when the database raises IntegrityError
RECURSIVE Flush(_, _)
Flush(rows, pend) ==
    IF pend = <<>> THEN [ok |-> TRUE, rows |-> rows]
    ELSE IF ~AttUniqueOK(rows, Head(pend).student_id, Head(pend).day)
    THEN [ok |-> FALSE, rows |-> rows]
    ELSE Flush(rows \cup {NewAtt(rows, Head(pend).student_id, Head(pend).day)},
               Tail(pend))

\* the loop missing the first student
StudentIdsButFirst(studs) == [i \in 1..(Len(studs) - 1) |-> i + 1]

\* session.query(Student).all(): the identities of the students, in table order
StudentIds(studs) == [i \in 1..Len(studs) |-> i]

\* the session closes on an exception: its transaction is rolled back
Rollback(p, r) ==
    /\ Put(p, Finish([r EXCEPT !.pend = <<>>, !.tx = {}], "error500"))
    /\ wlock' = IF wlock = p THEN None ELSE wlock
    /\ attendance' = attendance

\* dashboard lines 49-51, attendance_page lines 156-158, ensure_day_rows line 55
DayGet(p) ==
    /\ Free(p)
    /\ \E op \in {"dashboard", "attendance"} :
         IF ~Authenticated
         THEN Put(p, Finish(Fresh(op), "login_redirect"))
         ELSE Put(p, [Fresh(op) EXCEPT !.today = DateOf(clock),
                                       !.todo = StudentIds(students),
                                       !.pc = "ens_loop"])
    /\ UNCHANGED <<db, engine, clock, session, cam>>

\* ensure_day_rows lines 56-59, one student: the query autoflushes the row
\* added for the student before, then the row is added if none is found
EnsureLoop(p) ==
    LET r == req[p]
        fl == Flush(attendance \cup r.tx, r.pend)
        sid == Head(r.todo)
    IN  /\ r.pc = "ens_loop"
        /\ r.todo # <<>>
        /\ r.pend # <<>> => CanWrite(p)
        /\ IF ~fl.ok THEN Rollback(p, r)
           ELSE /\ Put(p, [r EXCEPT !.tx = fl.rows \ attendance,
                                    !.pend = IF AttFind(fl.rows, sid, r.today) # {}
                                             THEN <<>>
                                             ELSE <<[student_id |-> sid, day |-> r.today]>>,
                                    !.todo = Tail(r.todo)])
                /\ wlock' = IF r.pend # <<>> THEN p ELSE wlock
                /\ attendance' = attendance
        /\ UNCHANGED <<students, engine, clock, session, cam>>

\* ensure_day_rows line 60: flush what is pending and commit
EnsureCommit(p) ==
    LET r == req[p]
        fl == Flush(attendance \cup r.tx, r.pend)
    IN  /\ r.pc = "ens_loop"
        /\ r.todo = <<>>
        /\ (r.pend # <<>> \/ r.tx # {}) => CanWrite(p)
        /\ IF ~fl.ok THEN Rollback(p, r)
           ELSE /\ attendance' = fl.rows
                /\ wlock' = IF wlock = p THEN None ELSE wlock
                /\ Put(p, [r EXCEPT !.tx = {}, !.pend = <<>>, !.pc = "day_read"])
        /\ UNCHANGED <<students, engine, clock, session, cam>>

\* ------------------------------------------------- attendance queries
RECURSIVE SortByRoll(_, _)
SortByRoll(studs, rows) ==
    IF rows = {} THEN <<>>
    ELSE LET first == CHOOSE r \in rows : \A o \in rows :
                          ~StrLess(studs[o.student_id].roll_no, studs[r.student_id].roll_no)
         IN  <<first>> \o SortByRoll(studs, rows \ {first})

\* the filter of the dashboard's count carried over: Present rows only
DayRowsPresentOnly(studs, rows, d) ==
    LET joined == SortByRoll(studs,
                     {r \in rows : r.day = d /\ r.status = "Present"
                                             /\ r.student_id \in DOMAIN studs})
    IN  [i \in 1..Len(joined) |->
            [roll_no |-> studs[joined[i].student_id].roll_no,
             name |-> studs[joined[i].student_id].name,
             status |-> joined[i].status,
             timestamp |-> FormatTime(joined[i].timestamp)]]

\* query(Attendance, Student).join(...).filter(Attendance.day == d)
\*   .order_by(Student.roll_no), rendered as the handlers render each pair
DayRows(studs, rows, d) ==
    LET joined == SortByRoll(studs,
                     {r \in rows : r.day = d /\ r.student_id \in DOMAIN studs})
    IN  [i \in 1..Len(joined) |->
            [roll_no |-> studs[joined[i].student_id].roll_no,
             name |-> studs[joined[i].student_id].name,
             status |-> joined[i].status,
             timestamp |-> FormatTime(joined[i].timestamp)]]

CountPresent(rowseq) == Cardinality({i \in 1..Len(rowseq) : rowseq[i].status = "Present"})

\* dashboard lines 52-54; attendance_page lines 159-174
DayRead(p) ==
    LET r == req[p]
        rows == DayRows(students, attendance, r.today)
        present == Cardinality({a \in attendance : a.day = r.today /\ a.status = "Present"})
    IN  /\ r.pc = "day_read"
        /\ Put(p, Finish([r EXCEPT !.result =
                IF r.op = "dashboard"
                THEN [total |-> Len(students), present |-> present,
                      absent |-> 0, rows |-> <<>>]
                ELSE [total |-> 0, present |-> 0, absent |-> 0, rows |-> rows]], "ok"))
        /\ UNCHANGED <<db, engine, clock, session, cam>>

\* api_attendance_today
ApiAttendanceToday(p) ==
    LET rows == DayRows(students, attendance, DateOf(clock))
        r == [Fresh("api_today") EXCEPT !.today = DateOf(clock)]
    IN  /\ Free(p)
        /\ IF ~Authenticated
           THEN Put(p, Finish(Fresh("api_today"), "login_redirect"))
           ELSE Put(p, Finish([r EXCEPT !.result =
                    [total |-> Len(rows), present |-> CountPresent(rows),
                     absent |-> Len(rows) - CountPresent(rows), rows |-> rows]], "ok"))
        /\ UNCHANGED <<db, engine, clock, session, cam>>

\* request.args.get('date'): absent, not of the form %Y-%m-%d, or a date
DateArgs ==
    {[kind |-> "absent", day |-> 0], [kind |-> "malformed", day |-> 0]}
        \cup [kind : {"iso"}, day : Days]

\* datetime.strptime(dstr, '%Y-%m-%d').date(): raises unless dstr is a date
ParseDate(arg) == [ok |-> arg.kind = "iso", day |-> arg.day]

\* download_attendance_today, download_attendance_by_date, download_attendance_pdf:
\* the day exported, or ok = FALSE when the request dies in strptime
ExportDay(op, arg, t) ==
    IF op = "download_today" THEN [ok |-> TRUE, day |-> DateOf(t)]
    ELSE IF op = "download_pdf" /\ arg.kind = "absent" THEN [ok |-> TRUE, day |-> DateOf(t)]
    ELSE ParseDate(arg)

\* _download_attendance_for_date and download_attendance_pdf: the data rows written
Download(p) ==
    /\ Free(p)
    /\ \E op \in {"download_today", "download_by_date", "download_pdf"}, arg \in DateArgs :
         LET d == ExportDay(op, arg, clock)
             rows == DayRows(students, attendance, d.day)
         IN  IF ~Authenticated
             THEN Put(p, Finish(Fresh(op), "login_redirect"))
             ELSE IF ~d.ok
             THEN Put(p, Finish(Fresh(op), "error500"))
             ELSE Put(p, Finish([Fresh(op) EXCEPT !.today = d.day,
                     !.result = [total |-> Len(rows), present |-> 0,
                                 absent |-> 0, rows |-> rows]], "ok"))
    /\ UNCHANGED <<db, engine, clock, session, cam>>

\* ------------------------------------------------ /api/mark_attendance
\* the handler going on without the None check
AfterRecognizeUnchecked(sid) == [Fresh("mark") EXCEPT !.sid = sid, !.pc = "mark_today"]

\* api_mark_attendance lines 180-181: no match is answered 400
AfterRecognize(sid) ==
    IF sid = None THEN Finish(Fresh("mark"), "nomatch400")
    ELSE [Fresh("mark") EXCEPT !.sid = sid, !.pc = "mark_today"]

\* api_mark_attendance line 179: recognize_once(threshold=70.0)
MarkPost(p) ==
    LET ld == LoadOrTrain(faces, recognizer, modelFile)
    IN  /\ Free(p)
        /\ IF ~Authenticated
           THEN /\ Put(p, Finish(Fresh("mark"), "login_redirect"))
                /\ UNCHANGED <<recognizer, modelFile>>
           ELSE IF ~ld.ok
           THEN /\ Put(p, AfterRecognize(None))
                /\ UNCHANGED <<recognizer, modelFile>>
           ELSE /\ recognizer' = ld.recognizer
                /\ modelFile' = ld.modelFile
                /\ \E run \in RecRuns(ld.recognizer, MarkConfs) :
                     Put(p, AfterRecognize(RecLoop(InitRec, run, Threshold).predicted))
        /\ UNCHANGED <<db, faces, clock, session, cam>>

\* api_mark_attendance line 182
MarkToday(p) ==
    LET r == req[p]
    IN  /\ r.pc = "mark_today"
        /\ Put(p, [r EXCEPT !.today = DateOf(clock), !.pc = "mark_lookup"])
        /\ UNCHANGED <<db, engine, clock, session, cam>>

\* api_mark_attendance lines 183-186
MarkLookup(p) ==
    LET r == req[p]
        found == AttFind(attendance, r.sid, r.today)
    IN  /\ r.pc = "mark_lookup"
        /\ Put(p, [r EXCEPT !.now = clock,
                            !.was = IF found = {} THEN "none"
                                    ELSE (CHOOSE a \in found : TRUE).status,
                            !.att = IF found = {} THEN None ELSE (CHOOSE a \in found : TRUE).id,
                            !.pc = IF found = {} THEN "mark_insert" ELSE "mark_update"])
        /\ UNCHANGED <<db, engine, clock, session, cam>>

\* api_mark_attendance lines 187-188: INSERT the Absent row and commit
MarkInsert(p) ==
    LET r == req[p]
        fl == Flush(attendance, <<[student_id |-> r.sid, day |-> r.today]>>)
    IN  /\ r.pc = "mark_insert"
        /\ CanWrite(p)
        /\ IF ~fl.ok THEN Rollback(p, r)
           ELSE /\ attendance' = fl.rows
                /\ wlock' = wlock
                /\ Put(p, [r EXCEPT !.att = (CHOOSE a \in fl.rows \ attendance : TRUE).id,
                                    !.pc = "mark_update"])
        /\ UNCHANGED <<students, engine, clock, session, cam>>

\* the UPDATE without its WHERE clause
MarkPresentEveryRow(rows, id, now) ==
    {[a EXCEPT !.status = "Present", !.timestamp = now] : a \in rows}

\* the timestamp assignment left out
MarkPresentNoStamp(rows, id, now) ==
    {IF a.id = id THEN [a EXCEPT !.status = "Present"] ELSE a : a \in rows}

\* the status toggled instead of set: a second mark turns Present into Absent
MarkPresentToggle(rows, id, now) ==
    {IF a.id = id
     THEN [a EXCEPT !.status = IF @ = "Present" THEN "Absent" ELSE "Present",
                    !.timestamp = now]
     ELSE a : a \in rows}

\* the attendance table after att.status = 'Present'; att.timestamp = now; commit
MarkPresent(rows, id, now) ==
    {IF a.id = id THEN [a EXCEPT !.status = "Present", !.timestamp = now] ELSE a : a \in rows}

\* api_mark_attendance lines 189-193
MarkUpdate(p) ==
    LET r == req[p]
    IN  /\ r.pc = "mark_update"
        /\ CanWrite(p)
        /\ attendance' = MarkPresent(attendance, r.att, r.now)
        /\ IF r.sid \notin DOMAIN students
           THEN Put(p, Finish(r, "error500"))
           ELSE Put(p, Finish([r EXCEPT !.result =
                    [total |-> 0, present |-> 0, absent |-> 0,
                     rows |-> <<[roll_no |-> students[r.sid].roll_no,
                                 name |-> students[r.sid].name,
                                 status |-> "Present",
                                 timestamp |-> FormatTime(r.now)]>>]], "ok"))
        /\ UNCHANGED <<students, wlock, engine, clock, session, cam>>

\* ------------------------------------- recognize_once, step by step
\* the loop of recognize_once with a loaded model, one detection at a time:
\* `left` faces of the current frame still to predict, `seen` the detections
\* predicted so far, `st` the loop's predicted and best_conf
\* RECOGNIZER.predict gives the chi-square distance between histograms of an
\* 8x8 grid of cells, each normalised (line 19): at most 4 * 8 * 8 = 256, far
\* below the 999 that best_conf starts from, whatever the threshold is
CamLabels == {1, 2}
CamConfs == {40, 55, 65, 70, 75, 80, 256}
CamThresholds == {55, 70, 1000}

NoCam == [pc |-> "off", threshold |-> 0, left |-> 0, seen |-> <<>>, st |-> InitRec]

\* line 103-107: cap.read() fails, or a frame with k faces comes
CamRead ==
    /\ cam.pc = "read"
    /\ \/ cam' = [cam EXCEPT !.pc = "done"]
       \/ \E k \in 0..MaxCamFaces :
            /\ Len(cam.seen) + k <= MaxSeen
            /\ cam' = [cam EXCEPT !.pc = "faces", !.left = k]
    /\ UNCHANGED <<db, engine, clock, session, req, started>>

\* lines 108-119: the next face of the frame is predicted
CamDetect ==
    /\ cam.pc = "faces"
    /\ cam.left > 0
    /\ \E det \in Detections(CamLabels, CamConfs) :
         cam' = [cam EXCEPT !.left = @ - 1,
                            !.seen = Append(@, det),
                            !.st = RecDetect(@, det, cam.threshold)]
    /\ UNCHANGED <<db, engine, clock, session, req, started>>

\* lines 120-122: the frame is shown; 'q' ends the loop
CamKey ==
    /\ cam.pc = "faces"
    /\ cam.left = 0
    /\ \E q \in BOOLEAN : cam' = [cam EXCEPT !.pc = IF q THEN "done" ELSE "read"]
    /\ UNCHANGED <<db, engine, clock, session, req, started>>

\* ------------------------------------- capture_samples, step by step
\* the loop of capture_samples(sid, samples), one face at a time: `frames`
\* frames read, `left` faces of the current frame still to save, `count` and
\* `preview` the loop's variables, `exit` the way the loop was left
NoCapture ==
    [pc |-> "cap_read", sid |-> 1, samples |-> 1, frames |-> 0, left |-> 0,
     count |-> 0, preview |-> EmptyStr, exit |-> ""]

\* lines 36-41: the loop condition, then cap.read() fails or a frame with k
\* faces comes
CapRead ==
    /\ cam.pc = "cap_read"
    /\ IF ~(cam.count < cam.samples)
       THEN cam' = [cam EXCEPT !.pc = "cap_done", !.exit = "full"]
       ELSE \/ cam' = [cam EXCEPT !.pc = "cap_done", !.exit = "camera"]
            \/ \E k \in 0..MaxCamFaces :
                 /\ cam.frames < MaxCapFrames
                 /\ cam' = [cam EXCEPT !.pc = "cap_faces", !.left = k, !.frames = @ + 1]
    /\ UNCHANGED <<db, engine, clock, session, req, started>>

\* lines 42-50: the next face of the frame is cropped and written to
\* <sid>_<count:03d>.png
CapSave ==
    /\ cam.pc = "cap_faces"
    /\ cam.left > 0
    /\ cam' = [cam EXCEPT !.left = @ - 1,
                          !.preview = <<cam.sid, cam.count>>,
                          !.count = @ + 1]
    /\ faces' = StoreSamples(faces, cam.sid, cam.count + 1)
    /\ UNCHANGED <<db, modelFile, recognizer, clock, session, req, started>>

\* lines 51-53: the frame is shown; 'q' ends the loop
CapKey ==
    /\ cam.pc = "cap_faces"
    /\ cam.left = 0
    /\ \E q \in BOOLEAN :
         cam' = IF q THEN [cam EXCEPT !.pc = "cap_done", !.exit = "key"]
                ELSE [cam EXCEPT !.pc = "cap_read"]
    /\ UNCHANGED <<db, engine, clock, session, req, started>>

\* ------------------------------------------------------ specification

\* the state after module import and the bootstrap of app.py lines 38-43
Init ==
    /\ students = <<>>
    /\ attendance = {}
    /\ wlock = None
    /\ faces = <<>>
    /\ modelFile = NoModelFile
    /\ recognizer = {}
    /\ clock = 0
    /\ session = None
    /\ req = [p \in Procs |-> IdleReq]
    /\ cam = NoCam
    /\ started = 0

Step(p) ==
    \/ RegisterPost(p) \/ RegisterInsert(p) \/ RegisterCapture(p)
    \/ RegisterSetImage(p) \/ RegisterTrain(p)
    \/ RosterGet(p) \/ FormGet(p)
    \/ EditPost(p) \/ EditCapture(p) \/ EditCommit(p) \/ EditTrain(p)
    \/ DayGet(p) \/ EnsureLoop(p) \/ EnsureCommit(p) \/ DayRead(p)
    \/ ApiAttendanceToday(p) \/ Download(p)
    \/ MarkPost(p) \/ MarkToday(p) \/ MarkLookup(p) \/ MarkInsert(p) \/ MarkUpdate(p)

\* one request at a time
Next == (Login(1) \/ Logout(1) \/ Tick \/ Step(1)) /\ UNCHANGED started

Spec == Init /\ [][Next]_vars

\* a serving thread takes the next request
Accept(p) ==
    /\ Free(p)
    /\ started < MaxRequests
    /\ started' = started + 1
    /\ Step(p)

\* a serving thread goes on with the request it is handling
Continue(p) ==
    /\ ~Free(p)
    /\ started' = started
    /\ Step(p)

\* requests served by concurrent threads
ConcNext ==
    \/ Tick /\ UNCHANGED started
    \/ \E p \in Procs : (Login(p) \/ Logout(p)) /\ UNCHANGED started
    \/ \E p \in Procs : Accept(p) \/ Continue(p)

ConcSpec == Init /\ [][ConcNext]_vars

\* recognize_once called with a model loaded, the camera stepped
RecogInit ==
    /\ students = <<>>
    /\ attendance = {}
    /\ wlock = None
    /\ faces = <<>>
    /\ modelFile = NoModelFile
    /\ recognizer = {}
    /\ clock = 0
    /\ session = None
    /\ req = [p \in Procs |-> IdleReq]
    /\ started = 0
    /\ cam \in {[NoCam EXCEPT !.pc = "read", !.threshold = t] : t \in CamThresholds}

RecogNext == CamRead \/ CamDetect \/ CamKey

RecogSpec == RecogInit /\ [][RecogNext]_vars

\* train_or_update_model called on any face store, model file and recognizer
\* FACES_DIR: a folder for some of the students, each with 0..MaxFaces samples
FaceStores == UNION {[S -> 0..MaxFaces] : S \in SUBSET (1..MaxStudents)}
\* MODEL_PATH: absent, or saved by an earlier training
ModelFiles ==
    {NoModelFile} \cup
        {[exists |-> TRUE, labels |-> L] : L \in SUBSET (1..MaxStudents) \ {{}}}

TrainInit ==
    /\ students = <<>>
    /\ attendance = {}
    /\ wlock = None
    /\ faces \in FaceStores
    /\ modelFile \in ModelFiles
    /\ recognizer \in SUBSET (1..MaxStudents)
    /\ clock = 0
    /\ session = None
    /\ req = [p \in Procs |-> IdleReq]
    /\ cam = NoCam
    /\ started = 0

\* one call of train_or_update_model
TrainCall ==
    LET t == TrainOrUpdate(faces, recognizer, modelFile)
    IN  /\ req[1].pc = "idle"
        /\ recognizer' = t.recognizer
        /\ modelFile' = t.modelFile
        /\ Put(1, Finish([Fresh("train") EXCEPT !.trains = 1],
                         IF t.ok THEN "trained" ELSE "untrained"))
        /\ UNCHANGED <<db, faces, clock, session, cam, started>>

TrainNext == TrainCall

TrainSpec == TrainInit /\ [][TrainNext]_vars

\* capture_samples called for a student with an empty folder
CaptureInit ==
    /\ students = <<>>
    /\ attendance = {}
    /\ wlock = None
    /\ faces = <<>>
    /\ modelFile = NoModelFile
    /\ recognizer = {}
    /\ clock = 0
    /\ session = None
    /\ req = [p \in Procs |-> IdleReq]
    /\ started = 0
    /\ cam \in {[NoCapture EXCEPT !.sid = i, !.samples = n] :
                    i \in 1..MaxStudents, n \in 1..MaxCapSamples}

CaptureNext == CapRead \/ CapSave \/ CapKey

CaptureSpec == CaptureInit /\ [][CaptureNext]_vars


\* ============================================================ claims
RowsOf(sid, d) == {a \in attendance : a.student_id = sid /\ a.day = d}
Moved(p) == req'[p] # req[p]

\* every student has exactly one committed row for day d
DayComplete(d) == \A i \in DOMAIN students : Cardinality(RowsOf(i, d)) = 1

\* the attendance rows request p sees: the committed ones and its own
Visible(p) == attendance \cup req[p].tx

KeyUnique(rows) ==
    \A a, b \in rows : (a.student_id = b.student_id /\ a.day = b.day) => a = b

\* request p is about to INSERT a row whose (student_id, day) is already there
InsertsDuplicate(p) ==
    \/ /\ req[p].pc = "ens_loop"
       /\ req[p].pend # <<>>
       /\ \E a \in Visible(p) : a.student_id = req[p].pend[1].student_id
                                /\ a.day = req[p].pend[1].day
    \/ /\ req[p].pc = "mark_insert"
       /\ RowsOf(req[p].sid, req[p].today) # {}

\* C1: under any interleaving of requests running ensure_day_rows and
\* api_mark_attendance, the attendance table (and what any session sees of
\* it) never holds two rows for one (student_id, day); the request that
\* tries to insert a row already there gets the constraint error and adds
\* nothing.
C1_UniquePerStudentDay ==
    /\ [](\A p \in Procs : KeyUnique(Visible(p)))
    /\ [][\A p \in Procs : (InsertsDuplicate(p) /\ Moved(p)) =>
             (attendance' = attendance /\ req'[p].outcome = "error500")]_vars

C1_Witness ==
    \E p \in Procs :
        /\ req[p].op \in {"dashboard", "attendance", "mark"}
        /\ req[p].outcome = "error500"
        /\ attendance # {}

\* C2: ensure_day_rows is idempotent: when it has run, every student has
\* exactly one row for the day; run again on such a state it inserts nothing
\* and raises no error; and no call changes or removes a row that was there.
C2_EnsureIdempotent ==
    /\ [](\A p \in Procs : req[p].pc = "day_read" => DayComplete(req[p].today))
    /\ [][\A p \in Procs : (req[p].pc = "ens_loop" /\ DayComplete(req[p].today)) =>
             (attendance' = attendance /\ req'[p].outcome # "error500")]_vars
    /\ [][\A p \in Procs : req[p].pc = "ens_loop" => attendance \subseteq attendance']_vars

\* a call that went through two students, one of them marked Present, and
\* found nothing to add
C2_Witness ==
    /\ req[1].pc = "ens_loop"
    /\ req[1].todo = <<>> /\ req[1].pend = <<>> /\ req[1].tx = {}
    /\ Len(students) = 2
    /\ DayComplete(req[1].today)
    /\ \E a \in attendance : a.day = req[1].today /\ a.status = "Present"

\* C3: marking a student whose row for today is Absent turns that one row
\* into Present with the marking time as timestamp; no row is added and no
\* other row changes.
C3_MarkTransition ==
    /\ [][\A p \in Procs :
            (req[p].pc = "mark_lookup" /\ Moved(p)
                /\ \E a \in RowsOf(req[p].sid, req[p].today) : a.status = "Absent") =>
            (req'[p].pc = "mark_update" /\ req'[p].was = "Absent"
                /\ req'[p].now = clock /\ attendance' = attendance)]_vars
    /\ [][\A p \in Procs :
            (req[p].pc = "mark_update" /\ req[p].was = "Absent" /\ Moved(p)) =>
            LET old == RowsOf(req[p].sid, req[p].today)
            IN  /\ Cardinality(old) = 1
                /\ attendance' = (attendance \ old) \cup
                       {[a EXCEPT !.status = "Present", !.timestamp = req[p].now] : a \in old}
                /\ students' = students
                /\ req'[p].outcome = "ok"
                /\ req'[p].result.rows[1].timestamp = FormatTime(req[p].now)]_vars

C3_Witness ==
    /\ req[1].op = "mark" /\ req[1].outcome = "ok" /\ req[1].was = "Absent"
    /\ Len(students) = 2
    /\ \E a \in attendance : a.status = "Absent"
    /\ \E a \in attendance : a.status = "Present" /\ a.day = req[1].today

\* C4: every committed attendance row with status Present has a timestamp.
C4_PresentHasTimestamp ==
    \A a \in attendance : a.status = "Present" => a.timestamp # NoTimestamp

\* a row created and flipped by one marking request
C4_Witness ==
    /\ req[1].op = "mark" /\ req[1].outcome = "ok" /\ req[1].was = "none"
    /\ \E a \in attendance : a.status = "Present"

Completed(p, ops) == req[p].pc = "done" /\ req[p].outcome = "ok" /\ req[p].op \in ops

\* C5 as claimed: after the dashboard view, the attendance view or the
\* mark-attendance action completes, every existing student has a row for
\* the day the request took as today.
C5_Original ==
    \A p \in Procs : Completed(p, {"dashboard", "attendance", "mark"}) =>
        \A i \in DOMAIN students : RowsOf(i, req[p].today) # {}

\* C5 amended: after the dashboard view or the attendance view completes,
\* every existing student has a row for the day the request took as today;
\* mark-attendance leaves a row for the matched student only.
C5_Amended ==
    /\ \A p \in Procs : Completed(p, {"dashboard", "attendance"}) =>
           \A i \in DOMAIN students : RowsOf(i, req[p].today) # {}
    /\ \A p \in Procs : Completed(p, {"mark"}) =>
           \E i \in DOMAIN students :
               /\ students[i].roll_no = req[p].result.rows[1].roll_no
               /\ RowsOf(i, req[p].today) # {}

C5_Witness ==
    /\ Completed(1, {"dashboard", "attendance"})
    /\ Len(students) = 2
    /\ \A i \in DOMAIN students :
           \E a \in RowsOf(i, req[1].today) : a.status = "Absent"

\* C6: every operation that reads a day's attendance shows every student
\* registered before the request: the listing operations hold a row for each
\* student, the dashboard counts each student.
C6_ReadersSeeEveryStudent ==
    \A p \in Procs :
        /\ Completed(p, {"attendance", "api_today", "download_today",
                         "download_by_date", "download_pdf"}) =>
               \A i \in DOMAIN students :
                   \E k \in DOMAIN req[p].result.rows :
                       req[p].result.rows[k].roll_no = students[i].roll_no
        /\ Completed(p, {"dashboard"}) => req[p].result.total = Len(students)

\* C7: a registration whose roll number is in use never goes on to insert:
\* it is rejected, with no change to the students, the attendance rows, the
\* face samples or the model, and with no capture and no training.
C7_DuplicateRollRejected ==
    [][\A p \in Procs :
        (Free(p) /\ Moved(p) /\ req'[p].op = "register" /\ Authenticated) =>
            /\ \/ req'[p].pc = "reg_insert"
                  /\ \A i \in DOMAIN students : students[i].roll_no # req'[p].roll_no
               \/ req'[p].pc = "done" /\ req'[p].outcome = "rejected"
                  /\ students # <<>>
            /\ req'[p].pc = "done" =>
                  /\ req'[p].caps = 0 /\ req'[p].trains = 0
                  /\ UNCHANGED <<students, attendance, faces, modelFile, recognizer>>]_vars

C7_Witness ==
    /\ req[1].op = "register" /\ req[1].outcome = "rejected"
    /\ req[1].caps = 0 /\ req[1].trains = 0
    /\ students # <<>>

\* C8: under any interleaving of register and student-edit requests, no two
\* students share a roll number.
C8_RollUnique ==
    \A i, j \in DOMAIN students : students[i].roll_no = students[j].roll_no => i = j

\* a registration that passed the duplicate check and lost the roll number
\* to a concurrent request: its INSERT is refused by the constraint
C8_Witness ==
    /\ students # <<>>
    /\ \E p \in Procs : req[p].op = "register" /\ req[p].outcome = "error500"

\* no model file and no stored sample
NothingToRecognize == ~modelFile.exists /\ \A i \in DOMAIN faces : faces[i] = 0

\* C9: a marking request whose recognition gives no identity is answered 400
\* and leaves the attendance table as it was; this is the outcome whenever
\* there is neither a model nor a sample; and a marking request that goes on
\* has an identity.
C9_NoMatchChangesNothing ==
    /\ [][\A p \in Procs :
            (Free(p) /\ Moved(p) /\ req'[p].op = "mark" /\ Authenticated) =>
                /\ (req'[p].sid = None \/ NothingToRecognize) =>
                       /\ req'[p].pc = "done" /\ req'[p].outcome = "nomatch400"
                       /\ attendance' = attendance /\ students' = students
                /\ req'[p].sid # None => req'[p].sid \in recognizer']_vars
    /\ [](\A p \in Procs :
            (req[p].op = "mark" /\ req[p].pc # "done") => req[p].sid # None)

\* the camera ran against a trained model and gave no match
C9_Witness ==
    /\ req[1].op = "mark" /\ req[1].outcome = "nomatch400"
    /\ modelFile.exists /\ recognizer # {}
    /\ attendance # {}

\* C10: a single detection with confidence c against threshold t is accepted
\* if and only if c < t, and then its label is the identity returned.
C10_ThresholdStrict ==
    (Len(cam.seen) = 1 /\ cam.left = 0) =>
        /\ (cam.st.predicted # None) <=> (cam.seen[1].conf < cam.threshold)
        /\ cam.st.predicted # None => cam.st.predicted = cam.seen[1].label

\* confidence exactly at the threshold 70: rejected
C10_Witness ==
    /\ cam.pc = "done" /\ cam.threshold = Threshold
    /\ Len(cam.seen) = 1 /\ cam.seen[1].conf = Threshold
    /\ cam.st.predicted = None

\* the detections seen so far whose confidence is strictly below the threshold
Accepted == {i \in DOMAIN cam.seen : cam.seen[i].conf < cam.threshold}

\* the first detection seen that has the lowest confidence among the accepted
BestSeen ==
    CHOOSE i \in Accepted :
        \A j \in Accepted : \/ cam.seen[i].conf < cam.seen[j].conf
                             \/ (cam.seen[i].conf = cam.seen[j].conf /\ i <= j)

\* C11: when recognize_once returns (the stop key is pressed or the camera
\* delivers no frame), over frames with any number of detections: it returns
\* no identity exactly when no detection seen was strictly below the
\* threshold, and otherwise the label of the detection with the lowest
\* confidence among those below the threshold (the first such one on a tie).
C11_BestMatch ==
    cam.pc = "done" =>
        IF Accepted = {}
        THEN cam.st.predicted = None
        ELSE /\ cam.st.predicted = cam.seen[BestSeen].label
             /\ cam.st.best_conf = cam.seen[BestSeen].conf

\* confidences 80 (rejected), 40, 55 against threshold 70, over more than one
\* frame: the identity is the label of the confidence-40 detection
C11_Witness ==
    /\ cam.pc = "done" /\ cam.threshold = Threshold
    /\ Len(cam.seen) = 3
    /\ cam.seen[1].conf = 80 /\ cam.seen[2].conf = 40 /\ cam.seen[3].conf = 55
    /\ cam.seen[1].label = 1 /\ cam.seen[2].label = 2 /\ cam.seen[3].label = 1
    /\ cam.st.predicted = 2

\* no folder of FACES_DIR holds a sample
NoSamples == \A i \in DOMAIN faces : faces[i] = 0

\* C12: when no student folder holds a sample, train_or_update_model returns
\* failure and leaves the model file (present or absent), the in-memory
\* recognizer and the face store as they were.
C12_TrainOnNothing ==
    [][(req[1].pc = "idle" /\ Moved(1) /\ req'[1].op = "train" /\ NoSamples) =>
          /\ req'[1].outcome = "untrained"
          /\ modelFile' = modelFile
          /\ recognizer' = recognizer
          /\ faces' = faces]_vars

\* a failed training with empty student folders, a model file present and a
\* recognizer that holds something else than the file
C12_Witness ==
    /\ req[1].op = "train" /\ req[1].outcome = "untrained"
    /\ DOMAIN faces # {} /\ NoSamples
    /\ modelFile.exists /\ recognizer # modelFile.labels /\ recognizer # {}

Exports == {"download_today", "download_by_date", "download_pdf"}

\* C13: for a day on which every existing student has exactly one attendance
\* row, the spreadsheet exports and the PDF export of that day write exactly
\* one data row per student, and the attendance-today API reports total = N,
\* present + absent = N and present = the number of Present rows of the day.
C13_ExportComplete ==
    [][\A p \in Procs :
        (Free(p) /\ Moved(p) /\ req'[p].outcome = "ok"
            /\ req'[p].op \in Exports \cup {"api_today"}
            /\ DayComplete(req'[p].today)) =>
        LET res == req'[p].result
            N == Len(students)
        IN  /\ Len(res.rows) = N
            /\ \A i \in DOMAIN students :
                   \E k \in DOMAIN res.rows : res.rows[k].roll_no = students[i].roll_no
            /\ req'[p].op = "api_today" =>
                   /\ res.total = N
                   /\ res.present + res.absent = N
                   /\ res.present = Cardinality({a \in attendance :
                           a.day = req'[p].today /\ a.status = "Present"})]_vars

\* the API answering for two students, one Present and one Absent
C13_Witness ==
    /\ Completed(1, {"api_today"})
    /\ Len(students) = 2 /\ DayComplete(req[1].today)
    /\ req[1].result.total = 2 /\ req[1].result.present = 1 /\ req[1].result.absent = 1
    /\ Len(req[1].result.rows) = 2

\* the stored hash of the account named in the credentials is the hash of the
\* password given
PasswordMatches(c) ==
    \E u \in Users : u.username = c.username /\ u.password_hash = Hash(c.password)

\* C14: a request of an anonymous session to any route but /login is answered
\* with the redirect to the login page and changes no student, attendance
\* row, face sample or model; a session becomes authenticated only by a login
\* whose password matches the stored hash; a logout leaves the session
\* anonymous, and it stays anonymous until such a login.
C14_AuthGate ==
    /\ [][\A p \in Procs :
            (Free(p) /\ Moved(p) /\ ~Authenticated /\ req'[p].op # "login") =>
                /\ req'[p].pc = "done" /\ req'[p].outcome = "login_redirect"
                /\ ~Authenticated'
                /\ UNCHANGED <<students, attendance, faces, modelFile, recognizer>>]_vars
    /\ [][(~Authenticated /\ Authenticated') =>
            \E p \in Procs :
                /\ Moved(p) /\ req'[p].op = "login" /\ req'[p].outcome = "logged_in"
                /\ PasswordMatches(req'[p].cred)]_vars
    /\ [][\A p \in Procs :
            (Moved(p) /\ req'[p].op = "login" /\ ~PasswordMatches(req'[p].cred)) =>
                session' = session]_vars
    /\ [][\A p \in Procs :
            (Free(p) /\ Moved(p) /\ req'[p].op = "logout") => ~Authenticated']_vars

\* after a logout, a registration attempt was turned away at the gate while
\* students, attendance rows, samples and a model exist
C14_Witness ==
    /\ ~Authenticated
    /\ req[1].op = "register" /\ req[1].outcome = "login_redirect"
    /\ students # <<>> /\ attendance # {} /\ modelFile.exists

\* request p is a registration that has created its student, or an edit
\* submission for an existing student, and has not answered yet
HasStudent(p) ==
    /\ req[p].op \in {"register", "edit"}
    /\ req[p].pc \notin {"idle", "done"}
    /\ req[p].sid \in DOMAIN students

\* C15: the response of every registration that created a student and of
\* every edit submission for an existing student comes after exactly one
\* training attempt, whether or not the capture saved a sample; and these
\* requests change the student's image path only to the non-empty path the
\* capture returned.
C15_TrainsOnce ==
    /\ [][\A p \in Procs :
            (HasStudent(p) /\ Moved(p) /\ req'[p].pc = "done") => req'[p].trains = 1]_vars
    /\ [][\A p \in Procs :
            (HasStudent(p) /\ Moved(p)
                /\ students'[req[p].sid].image_path # students[req[p].sid].image_path) =>
            /\ req[p].preview # EmptyStr
            /\ students'[req[p].sid].image_path = req[p].preview]_vars

\* request p is about to write a roll number another student holds
RollClash(p) ==
    \/ /\ req[p].pc = "reg_insert"
       /\ ~RollUniqueOK(students, Len(students) + 1, req[p].roll_no)
    \/ /\ req[p].pc = "edit_commit"
       /\ req[p].roll_no # req[p].loaded.roll_no
       /\ ~RollUniqueOK(students, req[p].sid, req[p].roll_no)

\* C16: with requests served one at a time, every constraint is checked
\* before the write: no request reaches a commit that violates the roll-number
\* uniqueness or the (student, day) uniqueness.
C16_ConstraintsPrechecked ==
    \A p \in Procs : ~RollClash(p) /\ ~InsertsDuplicate(p)

\* C17: for every sequence of frames with any number of faces each, one call
\* of capture_samples(sid, n) saves at most n crops, and exactly n unless the
\* camera failed or the stop key was pressed; it returns the path of the last
\* crop saved, and the empty result exactly when it saved none.
C17_CaptureStopsAtN ==
    cam.pc = "cap_done" =>
        /\ cam.count <= cam.samples
        /\ cam.exit \notin {"camera", "key"} => cam.count = cam.samples
        /\ (cam.preview = EmptyStr) <=> (cam.count = 0)
        /\ cam.count > 0 => cam.preview = PreviewPath(cam.sid, cam.count)

\* request p is the marking request writing row a in this step
Remarks(p, a) == req[p].pc = "mark_update" /\ req[p].att = a.id /\ Moved(p)

\* C18: with requests served one at a time, a row that is Present stays in
\* the table and stays Present, for the same student and day, whatever
\* dashboard, attendance-page, register, edit or marking request runs; the
\* only change to it is a repeated marking of the student, which puts its own,
\* later marking time in the timestamp and changes no other row.
C18_PresentPermanent ==
    [][\A a \in attendance : a.status = "Present" =>
          \E b \in attendance' :
              /\ b.id = a.id /\ b.student_id = a.student_id /\ b.day = a.day
              /\ b.status = "Present"
              /\ \/ b.timestamp = a.timestamp
                 \/ \E p \in Procs :
                      /\ Remarks(p, a)
                      /\ req[p].sid = a.student_id /\ req[p].was = "Present"
                      /\ b.timestamp = req[p].now /\ b.timestamp > a.timestamp
                      /\ attendance' = (attendance \ {a}) \cup {b}]_vars

\* a student already Present was marked again, later than the day's first
\* tick, while another row is Absent
C18_Witness ==
    /\ Completed(1, {"mark"}) /\ req[1].was = "Present"
    /\ \E a \in attendance :
           a.status = "Present" /\ a.day = req[1].today
                                /\ a.timestamp > a.day * TicksPerDay
    /\ \E a \in attendance : a.status = "Absent"

\* C19: the calendar date of the timestamp of every Present row is the row's
\* day, also when midnight falls between the two clock reads of
\* api_mark_attendance.
C19_TimestampOnRowDay ==
    \A a \in attendance : a.status = "Present" => DateOf(a.timestamp) = a.day

\* C20: every label in the face dataset, in the model file and in the loaded
\* recognizer is the identity of an existing student, so the identity a
\* marking request works with exists, and so does the student of every
\* attendance row.
C20_LabelsAreStudents ==
    /\ DOMAIN faces \subseteq DOMAIN students
    /\ DatasetLabels(faces) \subseteq DOMAIN students
    /\ modelFile.labels \subseteq DOMAIN students
    /\ recognizer \subseteq DOMAIN students
    /\ \A p \in Procs :
           (req[p].op = "mark" /\ req[p].pc \notin {"idle", "done"}) =>
               req[p].sid \in DOMAIN students
    /\ \A p \in Procs : req[p].outcome = "error500" => req[p].op # "mark"
    /\ \A a \in attendance : a.student_id \in DOMAIN students

\* a marking request created the row of the second of two students, both in
\* the trained model
C20_Witness ==
    /\ Completed(1, {"mark"}) /\ req[1].was = "none"
    /\ Len(students) = 2 /\ recognizer = {1, 2} /\ modelFile.labels = {1, 2}
    /\ \E a \in attendance : a.student_id = 2 /\ a.status = "Present"

====
